---- MODULE Spec2Model ----
(***************************************************************************)
(* A model of the robot-data-augment command line tool:                    *)
(*   download_dataset.py  download_datasets / _download_selective          *)
(*   generate_video.py    generate_video and its input checks              *)
(*   export_videos.py     export_videos                                    *)
(*   run.py               the subcommands that wrap them                   *)
(* Strings are sequences of one-character (or one-token) strings, so that  *)
(* formatting ({:05d}, {:03d}) and parsing (int()) are computed.           *)
(***************************************************************************)
EXTENDS Integers, Sequences, FiniteSets, TLC

\* ------------------------------------------------------------------ bounds
\* Longest shardLengths list of a dataset_info.json on the mirror.
MaxShards == 3
\* Largest episode count of one shard.
MaxLen == 2
\* Largest --max_episodes given to download_dataset.
MaxEpisodes == 3

\* --------------------------------------------------------- text helpers
DigitChars == <<"0", "1", "2", "3", "4", "5", "6", "7", "8", "9">>

IsDigit(c) == \E d \in 1..10 : DigitChars[d] = c

DigitVal(c) == (CHOOSE d \in 1..10 : DigitChars[d] = c) - 1

\* The decimal digits of n >= 0, most significant first (what str(n) gives).
RECURSIVE Decimal(_)
Decimal(n) == IF n < 10 THEN <<DigitChars[n + 1]>>
              ELSE Decimal(n \div 10) \o <<DigitChars[(n % 10) + 1]>>

RECURSIVE ZeroPad(_, _)
ZeroPad(s, w) == IF Len(s) >= w THEN s ELSE ZeroPad(<<"0">> \o s, w)

\* Python's format(n, "0<w>d"): zero padding to a total width w, the sign first.
FormatD(n, w) == IF n >= 0 THEN ZeroPad(Decimal(n), w)
                 ELSE <<"-">> \o ZeroPad(Decimal(-n), w - 1)

AllDigits(s) == Len(s) > 0 /\ \A p \in 1..Len(s) : IsDigit(s[p])

RECURSIVE DigitsValue(_)
DigitsValue(s) == IF Len(s) = 0 THEN 0
                  ELSE 10 * DigitsValue(SubSeq(s, 1, Len(s) - 1)) + DigitVal(s[Len(s)])

\* Python's int(s) on the strings of this model: an optional sign, then digits.
\* IntOk(s) is FALSE where int(s) raises ValueError.
IntOk(s) == \/ AllDigits(s)
            \/ Len(s) > 1 /\ s[1] \in {"-", "+"} /\ AllDigits(Tail(s))

IntOf(s) == IF s[1] = "-" THEN 0 - DigitsValue(Tail(s))
            ELSE IF s[1] = "+" THEN DigitsValue(Tail(s))
            ELSE DigitsValue(s)

StartsWith(s, p) == Len(s) >= Len(p) /\ SubSeq(s, 1, Len(p)) = p

EndsWith(s, p) == Len(s) >= Len(p) /\ SubSeq(s, Len(s) - Len(p) + 1, Len(s)) = p

\* An Optional[int]: <<>> is None, <<n>> is n.
None == <<>>

Some(n) == <<n>>

\* ------------------------------------------------------------------ state
VARIABLES
    dataset_names,   \* download_datasets: the dataset_names argument
    max_episodes,    \* download_datasets: the max_episodes argument (None or an int)
    mirror,          \* per dataset, the dataset_info.json the mirror holds
    dl_pc,           \* position in download_datasets / _download_selective
    ds_i,            \* 1-based position of the for loop over dataset_names
    meta_i,          \* 1-based position of the for loop over metadata_files
    shard_j,         \* new_shard_idx of the for loop over shards_needed
    shards_needed,   \* the local list of _download_selective
    info,            \* per dataset, dataset_info.json on disk: None or <<document>>
    features,        \* per dataset, whether features.json is on disk
    shards,          \* per dataset, the shard files on disk: file name -> original shard
    cmds,            \* the transfer commands issued so far, with their exit codes
    sel_ret,         \* per dataset, what _download_selective returned (None: not yet)
    dl_ret,          \* what download_datasets returned (None: still running)
    clobbered        \* a download or rename replaced a file that held another shard

dlvars == <<dataset_names, max_episodes, mirror, dl_pc, ds_i, meta_i, shard_j,
            shards_needed, info, features, shards, cmds, sel_ret, dl_ret, clobbered>>

VARIABLES
    gen_dir,         \* the file names in <video_dir>/<dataset>/generated
    gen_pc,          \* position in subcommand_generate / generate_video
    calls,           \* runs of the subcommand started so far
    video_name,      \* generate_video: the video_name argument
    next_number,     \* generate_video: the local next_number
    output_path,     \* generate_video: the local output_path (its file name)
    listed,          \* the directory as os.listdir saw it in this run
    meta,            \* what ffprobe reported in this run
    file_size,       \* os.path.getsize(video_path) as the size check read it
    checks,          \* the input checks passed in this run, in order
    called_remote,   \* replicate.run was called in this run
    wrote,           \* the output file was opened for writing in this run
    overwrote,       \* some run opened an output path that was already a file
    indices,         \* next_number of every run that returned, in order
    gen_ret,         \* what generate_video returned in the last run (None: nothing)
    gen_exc,         \* the exception generate_video raised in the last run ("": none)
    raised_at,       \* where it was raised
    printed,         \* the exception the subcommand printed ("": none)
    sub_ret,         \* what subcommand_generate returned (None: not yet)
    escaped          \* an exception left subcommand_generate

genvars == <<gen_dir, gen_pc, calls, video_name, next_number, output_path, listed, meta,
             file_size, checks, called_remote, wrote, overwrote, indices, gen_ret, gen_exc,
             raised_at, printed, sub_ret, escaped>>

VARIABLES
    exp_names,       \* export_videos: the dataset_names argument
    exp_max,         \* export_videos: the max_episodes argument
    exp_choice,      \* export_videos: the image_key_choice argument (None or an int)
    requested_key,   \* export_videos: the display_key argument as it was passed
    local,           \* per dataset: is its directory there, its observation keys, its episodes
    tty,             \* sys.stdin.isatty() and sys.stdout.isatty()
    typed,           \* the lines still to be read from stdin
    exp_pc,          \* position in export_videos
    exp_i,           \* 1-based position of the for loop over dataset_names
    display_key,     \* the local display_key
    exported,        \* the local counter of the episode loop
    ep_idx,          \* the local ep_idx of the episode loop
    dir_bound,       \* the local dataset_video_dir has been assigned
    videos,          \* per dataset, the video files written: file name -> key of its frames
    writes,          \* per dataset, how many times write_video was called
    visited          \* the datasets whose episode loop was entered

expvars == <<exp_names, exp_max, exp_choice, requested_key, local, tty, typed, exp_pc, exp_i,
             display_key, exported, ep_idx, dir_bound, videos, writes, visited>>

VARIABLES
    arg_list,        \* parse_dataset_args: the arg_list argument (None or <<list>>)
    csv,             \* parse_dataset_args: the csv argument (None or <<string>>)
    env,             \* parse_dataset_args: the env argument (None or <<string>>)
    parse_pc,        \* position in parse_dataset_args
    datasets,        \* the local list datasets
    defaulted,       \* line 24 was executed
    deduped          \* the local list deduped, which is returned

parsevars == <<arg_list, csv, env, parse_pc, datasets, defaulted, deduped>>

\* A specification runs one subcommand; the state of the others stays as it is here.
DownloadIdle ==
    /\ dataset_names = <<>>
    /\ max_episodes = None
    /\ mirror = <<>>
    /\ dl_pc = "idle"
    /\ ds_i = 0
    /\ meta_i = 0
    /\ shard_j = 0
    /\ shards_needed = <<>>
    /\ info = <<>>
    /\ features = <<>>
    /\ shards = <<>>
    /\ cmds = <<>>
    /\ sel_ret = <<>>
    /\ dl_ret = None
    /\ clobbered = FALSE

GenerateIdle ==
    /\ gen_dir = {}
    /\ gen_pc = "unused"
    /\ calls = 0
    /\ video_name = <<>>
    /\ next_number = 0
    /\ output_path = <<>>
    /\ listed = {}
    /\ meta = <<>>
    /\ file_size = 0
    /\ checks = <<>>
    /\ called_remote = FALSE
    /\ wrote = FALSE
    /\ overwrote = FALSE
    /\ indices = <<>>
    /\ gen_ret = None
    /\ gen_exc = ""
    /\ raised_at = ""
    /\ printed = ""
    /\ sub_ret = None
    /\ escaped = FALSE

ParseIdle ==
    /\ arg_list = None
    /\ csv = None
    /\ env = None
    /\ parse_pc = "unused"
    /\ datasets = <<>>
    /\ defaulted = FALSE
    /\ deduped = <<>>

ExportIdle ==
    /\ exp_names = <<>>
    /\ exp_max = 0
    /\ exp_choice = None
    /\ requested_key = ""
    /\ local = <<>>
    /\ tty = FALSE
    /\ typed = <<>>
    /\ exp_pc = "unused"
    /\ exp_i = 0
    /\ display_key = ""
    /\ exported = 0
    /\ ep_idx = 0
    /\ dir_bound = FALSE
    /\ videos = <<>>
    /\ writes = <<>>
    /\ visited = {}

\* ------------------------------------------------------ download_dataset.py
DatasetNames == {"droid", "robo_net"}

dataset_to_version(dataset_name) ==
    IF dataset_name = "droid" THEN "1.0.1"
    ELSE IF dataset_name = "robo_net" THEN "1.0.0"
    ELSE IF dataset_name = "cmu_playing_with_food" THEN "1.0.0"
    ELSE IF dataset_name = "language_table" THEN "0.0.1"
    ELSE "0.1.0"

get_dataset_prefix(dataset_name) ==
    IF dataset_name = "droid" THEN "droid_101" ELSE dataset_name

metadata_files == <<"dataset_info.json", "features.json">>

\* Exit codes of the transfer tool; rc = 0 is success.
ExitCodes == {0, 1, 2}

\* filepathTemplate of the mirror's dataset_info.json, as str.format fields.
StdTemplate == <<"{DATASET}", "-", "{SPLIT}", ".", "{FILEFORMAT}", "-", "{SHARD_X_OF_Y}">>

\* f"{x:05d}-of-{y:05d}"
ShardXofY(x, y) == FormatD(x, 5) \o <<"-of-">> \o FormatD(y, 5)

RECURSIVE FormatTemplate(_, _, _)
FormatTemplate(tmpl, prefix, shard_x_of_y) ==
    IF Len(tmpl) = 0 THEN <<>>
    ELSE LET h == Head(tmpl)
             sub == IF h = "{DATASET}" THEN <<prefix>>
                    ELSE IF h = "{SPLIT}" THEN <<"train">>
                    ELSE IF h = "{FILEFORMAT}" THEN <<"tfrecord">>
                    ELSE IF h = "{SHARD_X_OF_Y}" THEN shard_x_of_y
                    ELSE <<h>>
         IN  sub \o FormatTemplate(Tail(tmpl), prefix, shard_x_of_y)

\* The documents the mirror may hold as dataset_info.json.
LenLists == UNION {[1..n -> {Decimal(v) : v \in 0..MaxLen}] : n \in 0..MaxShards}

Split(name, lens, tmpl) ==
    [name |-> name, shardLengths |-> lens, filepathTemplate |-> tmpl, numBytes |-> "1024"]

TestSplit == Split("test", <<Decimal(1)>>, StdTemplate)

Doc(parses, splits) == [parses |-> parses, splits |-> splits]

\* Documents _download_selective gives up on: not JSON, no train split, no template;
\* and one plain document of two shards.
SimpleDocs == {Doc(FALSE, <<>>),
               Doc(TRUE, <<TestSplit>>),
               Doc(TRUE, <<Split("train", <<Decimal(1), Decimal(1)>>, <<>>)>>),
               Doc(TRUE, <<TestSplit, Split("train", <<Decimal(1), Decimal(1)>>, StdTemplate)>>)}

Docs == {Doc(TRUE, <<TestSplit, Split("train", lens, StdTemplate)>>) : lens \in LenLists}
        \cup SimpleDocs

\* for split in splits: if split.get("name") == "train": train_split = split; break
\* The position of the first train split, 0 when there is none.
TrainIndex(doc) ==
    IF \E p \in 1..Len(doc.splits) : doc.splits[p].name = "train"
    THEN CHOOSE p \in 1..Len(doc.splits) :
            /\ doc.splits[p].name = "train"
            /\ \A q \in 1..(p - 1) : doc.splits[q].name # "train"
    ELSE 0

ShardsNeededOffByOne(shard_lengths, limit, shard_idx, episodes_so_far) ==
    LET RECURSIVE Scan(_, _)
        Scan(idx, so_far) ==
            IF idx >= Len(shard_lengths) \/ so_far > limit THEN <<>>
            ELSE <<idx>> \o Scan(idx + 1, so_far + IntOf(shard_lengths[idx + 1]))
    IN  Scan(shard_idx, episodes_so_far)

\* The loop that fills shards_needed, from shard_idx on with episodes_so_far.
RECURSIVE ShardsNeededFrom(_, _, _, _)
ShardsNeededFrom(shard_lengths, limit, shard_idx, episodes_so_far) ==
    IF shard_idx >= Len(shard_lengths) \/ episodes_so_far >= limit THEN <<>>
    ELSE <<shard_idx>> \o ShardsNeededFrom(shard_lengths, limit, shard_idx + 1,
                              episodes_so_far + IntOf(shard_lengths[shard_idx + 1]))

ShardsNeeded(shard_lengths, limit) ==
    ShardsNeededFrom(shard_lengths, limit, 0, 0)



\* Lists of distinct dataset names (run.py de-duplicates them).
NameLists == {<<"droid">>, <<"robo_net">>, <<"droid", "robo_net">>}

Range(s) == {s[p] : p \in 1..Len(s)}

\* What the mirror holds for the datasets asked for: any document for one of them,
\* a simple one for the others.
Mirrors(names) ==
    UNION {{[d \in names |-> IF d = r THEN doc ELSE simple[d]] :
                doc \in Docs, simple \in [names -> SimpleDocs]} : r \in names}

NoFiles == [x \in {} |-> 0]

InitDownload ==
    /\ dataset_names \in NameLists
    /\ max_episodes \in {None} \cup {Some(m) : m \in 0..MaxEpisodes}
    /\ mirror \in Mirrors(Range(dataset_names))
    /\ dl_pc = "loop"
    /\ ds_i = 1
    /\ meta_i = 1
    /\ shard_j = 0
    /\ shards_needed = <<>>
    /\ info = [d \in DatasetNames |-> None]
    /\ features = [d \in DatasetNames |-> FALSE]
    /\ shards = [d \in DatasetNames |-> NoFiles]
    /\ cmds = <<>>
    /\ sel_ret = [d \in DatasetNames |-> None]
    /\ dl_ret = None
    /\ clobbered = FALSE
    /\ GenerateIdle /\ ExportIdle /\ ParseIdle

CurrentDataset == dataset_names[ds_i]

TrainSplitOf(doc) == doc.splits[TrainIndex(doc)]

OriginalFilenameIgnoresIndex(dataset_name, tmpl, original_shard_idx, total_shards) ==
    FormatTemplate(tmpl, get_dataset_prefix(dataset_name), ShardXofY(0, total_shards))

\* original_filename of shard original_shard_idx (lines 97-102).
OriginalFilename(dataset_name, tmpl, original_shard_idx, total_shards) ==
    FormatTemplate(tmpl, get_dataset_prefix(dataset_name),
                   ShardXofY(original_shard_idx, total_shards))

NewFilenameKeepsTotal(dataset_name, tmpl, new_shard_idx, new_total_shards) ==
    FormatTemplate(tmpl, get_dataset_prefix(dataset_name),
                   ShardXofY(new_shard_idx, new_total_shards + 1))

\* new_filename of the shard downloaded as number new_shard_idx (lines 105-110).
NewFilename(dataset_name, tmpl, new_shard_idx, new_total_shards) ==
    FormatTemplate(tmpl, get_dataset_prefix(dataset_name),
                   ShardXofY(new_shard_idx, new_total_shards))

\* A transfer command: gsutil cp <src_base>/<file> ..., with its exit code.
Cmd(dataset_name, kind, file, rc) ==
    [src_base |-> <<"gs://gresearch/robotics", dataset_name, dataset_to_version(dataset_name)>>,
     kind |-> kind, file |-> file, rc |-> rc]

ReturnSelectiveAlwaysOne(rc) ==
    /\ sel_ret' = [sel_ret EXCEPT ![CurrentDataset] = Some(IF rc # 0 THEN 1 ELSE 0)]
    /\ IF rc # 0
       THEN /\ dl_ret' = Some(1)
            /\ dl_pc' = "done"
            /\ ds_i' = ds_i
       ELSE /\ dl_ret' = dl_ret
            /\ dl_pc' = "loop"
            /\ ds_i' = ds_i + 1

\* return rc from _download_selective, and what download_datasets does with it
\* (lines 166-168): a non-zero rc ends the run, 0 goes on to the next dataset.
ReturnSelective(rc) ==
    /\ sel_ret' = [sel_ret EXCEPT ![CurrentDataset] = Some(rc)]
    /\ IF rc # 0
       THEN /\ dl_ret' = Some(rc)
            /\ dl_pc' = "done"
            /\ ds_i' = ds_i
       ELSE /\ dl_ret' = dl_ret
            /\ dl_pc' = "loop"
            /\ ds_i' = ds_i + 1

\* The files of a dataset on the mirror, as gsutil cp -r copies them.
MirrorShards(d) ==
    LET doc == mirror[d] IN
    IF doc.parses /\ TrainIndex(doc) # 0
    THEN LET t == TrainSplitOf(doc)
             n == Len(t.shardLengths)
             names == {OriginalFilename(d, t.filepathTemplate, x, n) : x \in 0..(n - 1)}
         IN  [f \in names |->
                CHOOSE x \in 0..(n - 1) : OriginalFilename(d, t.filepathTemplate, x, n) = f]
    ELSE NoFiles

\* max_episodes is None: gsutil -m cp -r src_base dst (lines 155-163).
CopyEntireDataset ==
    /\ dl_pc = "loop" /\ ds_i <= Len(dataset_names) /\ max_episodes = None
    /\ \E rc \in ExitCodes :
          /\ cmds' = Append(cmds, Cmd(CurrentDataset, "all", <<>>, rc))
          /\ IF rc # 0
             THEN /\ dl_ret' = Some(rc)
                  /\ dl_pc' = "done"
                  /\ UNCHANGED <<ds_i, info, features, shards>>
             ELSE /\ ds_i' = ds_i + 1
                  /\ info' = [info EXCEPT ![CurrentDataset] = Some(mirror[CurrentDataset])]
                  /\ features' = [features EXCEPT ![CurrentDataset] = TRUE]
                  /\ shards' = [shards EXCEPT ![CurrentDataset] = MirrorShards(CurrentDataset)]
                  /\ UNCHANGED <<dl_ret, dl_pc>>
    /\ UNCHANGED <<dataset_names, max_episodes, mirror, meta_i, shard_j, shards_needed,
                   sel_ret, clobbered>>
    /\ UNCHANGED <<genvars, expvars, parsevars>>

\* max_episodes is an int: the call of _download_selective, up to its first command.
EnterSelective ==
    /\ dl_pc = "loop" /\ ds_i <= Len(dataset_names) /\ max_episodes # None
    /\ dl_pc' = "metadata"
    /\ meta_i' = 1
    /\ UNCHANGED <<dataset_names, max_episodes, mirror, ds_i, shard_j, shards_needed, info,
                   features, shards, cmds, sel_ret, dl_ret, clobbered>>
    /\ UNCHANGED <<genvars, expvars, parsevars>>

\* One pass of the loop over metadata_files (lines 35-44).
DownloadMetadata ==
    /\ dl_pc = "metadata"
    /\ \E rc \in ExitCodes :
          /\ cmds' = Append(cmds, Cmd(CurrentDataset, "metadata", <<metadata_files[meta_i]>>, rc))
          /\ IF rc # 0
             THEN /\ ReturnSelective(rc)
                  /\ UNCHANGED <<meta_i, info, features>>
             ELSE /\ info' = IF metadata_files[meta_i] = "dataset_info.json"
                             THEN [info EXCEPT ![CurrentDataset] = Some(mirror[CurrentDataset])]
                             ELSE info
                  /\ features' = IF metadata_files[meta_i] = "features.json"
                                 THEN [features EXCEPT ![CurrentDataset] = TRUE]
                                 ELSE features
                  /\ meta_i' = meta_i + 1
                  /\ dl_pc' = IF meta_i = Len(metadata_files) THEN "plan" ELSE "metadata"
                  /\ UNCHANGED <<sel_ret, dl_ret, ds_i>>
    /\ UNCHANGED <<dataset_names, max_episodes, mirror, shard_j, shards_needed, shards,
                   clobbered>>
    /\ UNCHANGED <<genvars, expvars, parsevars>>

\* Lines 46-91: parse dataset_info.json, find the train split, plan the shards.
PlanShards ==
    /\ dl_pc = "plan"
    /\ LET doc == info[CurrentDataset][1] IN
       IF \/ ~doc.parses
          \/ TrainIndex(doc) = 0
          \/ TrainSplitOf(doc).shardLengths = <<>>
          \/ TrainSplitOf(doc).filepathTemplate = <<>>
       THEN /\ ReturnSelective(1)
            /\ UNCHANGED <<shards_needed, shard_j>>
       ELSE /\ shards_needed' = ShardsNeeded(TrainSplitOf(doc).shardLengths, max_episodes[1])
            /\ shard_j' = 0
            /\ dl_pc' = "shards"
            /\ UNCHANGED <<sel_ret, dl_ret, ds_i>>
    /\ UNCHANGED <<dataset_names, max_episodes, mirror, meta_i, info, features, shards, cmds,
                   clobbered>>
    /\ UNCHANGED <<genvars, expvars, parsevars>>

Without(files, name) == [f \in (DOMAIN files) \ {name} |-> files[f]]

ShardFailedRollsBack(rc) ==
    /\ ReturnSelective(rc)
    /\ shards' = [shards EXCEPT ![CurrentDataset] = NoFiles]
    /\ UNCHANGED <<shard_j, clobbered>>

\* if rc != 0: return rc (lines 120-122): nothing on disk is touched.
ShardFailed(rc) ==
    /\ ReturnSelective(rc)
    /\ UNCHANGED <<shards, shard_j, clobbered>>

\* One pass of the loop over shards_needed (lines 93-127): download, then rename.
DownloadShard ==
    /\ dl_pc = "shards" /\ shard_j < Len(shards_needed)
    /\ LET d == CurrentDataset
           t == TrainSplitOf(info[d][1])
           original_shard_idx == shards_needed[shard_j + 1]
           original_filename == OriginalFilename(d, t.filepathTemplate, original_shard_idx,
                                                 Len(t.shardLengths))
           new_filename == NewFilename(d, t.filepathTemplate, shard_j, Len(shards_needed))
           before == shards[d]
           fetched == (original_filename :> original_shard_idx) @@ before
           renamed == (new_filename :> original_shard_idx) @@ Without(fetched, original_filename)
       IN \E rc \in ExitCodes :
             /\ cmds' = Append(cmds, Cmd(d, "shard", original_filename, rc))
             /\ IF rc # 0
                THEN ShardFailed(rc)
                ELSE /\ shards' = [shards EXCEPT ![d] =
                                     IF original_filename # new_filename THEN renamed ELSE fetched]
                     /\ clobbered' =
                          \/ clobbered
                          \/ /\ original_filename \in DOMAIN before
                             /\ before[original_filename] # original_shard_idx
                          \/ /\ original_filename # new_filename
                             /\ new_filename \in DOMAIN fetched
                             /\ fetched[new_filename] # original_shard_idx
                     /\ shard_j' = shard_j + 1
                     /\ UNCHANGED <<sel_ret, dl_ret, dl_pc, ds_i>>
    /\ UNCHANGED <<dataset_names, max_episodes, mirror, meta_i, shards_needed, info, features>>
    /\ UNCHANGED <<genvars, expvars, parsevars>>

SelectLengthsKeepsAll(shard_lengths, needed) == shard_lengths

\* [shard_lengths[i] for i in shards_needed]
SelectLengths(shard_lengths, needed) == [p \in 1..Len(needed) |-> shard_lengths[needed[p] + 1]]

\* Lines 129-139: rewrite dataset_info.json and return 0.
RewriteInfo ==
    /\ dl_pc = "shards" /\ shard_j = Len(shards_needed)
    /\ LET d == CurrentDataset
           doc == info[d][1]
           ti == TrainIndex(doc)
           lens == SelectLengths(doc.splits[ti].shardLengths, shards_needed)
       IN info' = [info EXCEPT ![d] =
                      Some([doc EXCEPT !.splits[ti].shardLengths = lens])]
    /\ ReturnSelective(0)
    /\ UNCHANGED <<dataset_names, max_episodes, mirror, meta_i, shard_j, shards_needed,
                   features, shards, cmds, clobbered>>
    /\ UNCHANGED <<genvars, expvars, parsevars>>

\* The loop over dataset_names is exhausted: return 0 (lines 170-171).
DownloadComplete ==
    /\ dl_pc = "loop" /\ ds_i > Len(dataset_names)
    /\ dl_ret' = Some(0)
    /\ dl_pc' = "done"
    /\ UNCHANGED <<dataset_names, max_episodes, mirror, ds_i, meta_i, shard_j, shards_needed,
                   info, features, shards, cmds, sel_ret, clobbered>>
    /\ UNCHANGED <<genvars, expvars, parsevars>>

NextDownload ==
    \/ CopyEntireDataset
    \/ EnterSelective
    \/ DownloadMetadata
    \/ PlanShards
    \/ DownloadShard
    \/ RewriteInfo
    \/ DownloadComplete

vars == <<dlvars, genvars, expvars, parsevars>>

SpecDownload == InitDownload /\ [][NextDownload]_vars


\* -------------------------------------------------------- generate_video.py
\* Files already in <video_dir>/<dataset>/generated when generate_video starts.
MaxFiles == 2
\* Runs of the generate_video subcommand.
MaxCalls == 2

\* A file name is a sequence of tokens: a stem, "_generated-", characters, an extension.
Extensions == {".mp4", ".avi"}

\* os.path.splitext: <<root, ext>>.
SplitExt(name) ==
    IF Len(name) > 1 /\ name[Len(name)] \in Extensions
    THEN <<SubSeq(name, 1, Len(name) - 1), <<name[Len(name)]>>>>
    ELSE <<name, <<>>>>

\* base_name and extension of lines 122-123.
BaseName(name) == SplitExt(name)[1]

Extension(name) ==
    IF SplitExt(name)[2] # <<>> THEN SplitExt(name)[2] ELSE <<".mp4">>

\* f"{base_name}_generated-"
GeneratedPrefix(name) == BaseName(name) \o <<"_generated-">>

\* filename[len(prefix):-len(extension)]
NumberPart(filename, prefix, extension) ==
    SubSeq(filename, Len(prefix) + 1, Len(filename) - Len(extension))

\* existing_numbers of lines 125-133, as a set.
ExistingNumbers(dir, name) ==
    LET prefix == GeneratedPrefix(name)
        extension == Extension(name)
        matching == {f \in dir : StartsWith(f, prefix) /\ EndsWith(f, extension)}
    IN  {IntOf(NumberPart(f, prefix, extension)) :
            f \in {g \in matching : IntOk(NumberPart(g, prefix, extension))}}

SetMax(S) == CHOOSE x \in S : \A y \in S : y <= x

NextNumberCounts(existing_numbers) == Cardinality(existing_numbers) + 1

\* next_number = max(existing_numbers, default=0) + 1
NextNumber(existing_numbers) ==
    IF existing_numbers = {} THEN 1 ELSE SetMax(existing_numbers) + 1

\* output_filename of line 136.
OutputFilename(name, number) ==
    GeneratedPrefix(name) \o FormatD(number, 3) \o Extension(name)

\* str.split(sep): the pieces of s between the separators.
RECURSIVE SplitOn(_, _)
SplitOn(s, sep) ==
    IF \E p \in 1..Len(s) : s[p] = sep
    THEN LET p == CHOOSE q \in 1..Len(s) : s[q] = sep /\ \A r \in 1..(q - 1) : s[r] # sep
         IN  <<SubSeq(s, 1, p - 1)>> \o SplitOn(SubSeq(s, p + 1, Len(s)), sep)
    ELSE <<s>>

Abs(x) == IF x < 0 THEN 0 - x ELSE x

\* math.gcd
RECURSIVE Gcd(_, _)
Gcd(a, b) == IF b = 0 THEN Abs(a) ELSE Gcd(b, Abs(a) % Abs(b))

\* _require_24_fps: "ok" when it returns, else the exception it raises.
require_24_fps(avg_frame_rate) ==
    LET parts == SplitOn(avg_frame_rate, "/") IN
    IF Len(parts) # 2 \/ ~IntOk(parts[1]) \/ ~IntOk(parts[2]) THEN "ValueError"
    ELSE LET num == IntOf(parts[1])
             den == IntOf(parts[2])
             g == Gcd(num, den)
         IN  IF g = 0 THEN "ZeroDivisionError"
             ELSE IF (num \div g) = 24 /\ (den \div g) = 1 THEN "ok"
             ELSE "ValueError"

\* SUPPORTED_ASPECT_RATIOS, in the order of the dict: key, numerator, denominator.
SUPPORTED_ASPECT_RATIOS ==
    <<<<"16:9", 16, 9>>, <<"9:16", 9, 16>>, <<"4:3", 4, 3>>, <<"3:4", 3, 4>>,
      <<"1:1", 1, 1>>, <<"21:9", 21, 9>>>>

\* abs(width / height - target) compared exactly: delta(p) < delta(q).
DeltaLess(width, height, p, q) ==
    Abs(width * p[3] - p[2] * height) * q[3] < Abs(width * q[3] - q[2] * height) * p[3]

\* min_delta > 0.01 for the ratio p
DeltaOver(width, height, p) ==
    100 * Abs(width * p[3] - p[2] * height) > p[3] * height

\* _select_supported_aspect_ratio: the key chosen, or "" when it raises ValueError.
select_supported_aspect_ratio(width, height) ==
    IF width <= 0 \/ height <= 0 THEN ""
    ELSE LET n == Len(SUPPORTED_ASPECT_RATIOS)
             best == CHOOSE i \in 1..n :
                        /\ \A j \in 1..(i - 1) :
                              DeltaLess(width, height, SUPPORTED_ASPECT_RATIOS[i],
                                        SUPPORTED_ASPECT_RATIOS[j])
                        /\ \A j \in (i + 1)..n :
                              ~DeltaLess(width, height, SUPPORTED_ASPECT_RATIOS[j],
                                         SUPPORTED_ASPECT_RATIOS[i])
         IN  IF DeltaOver(width, height, SUPPORTED_ASPECT_RATIOS[best]) THEN ""
             ELSE SUPPORTED_ASPECT_RATIOS[best][1]

\* format.duration of ffprobe: absent, not a number, or a time in microseconds.
Duration(present, parses, micros) == [present |-> present, parses |-> parses, micros |-> micros]

MaxSecondsMicros == 5000000

ToleranceMicros == 1

\* _require_max_duration_seconds(meta, 5.0)
require_max_duration_seconds(duration) ==
    IF ~duration.present THEN "ValueError"
    ELSE IF ~duration.parses THEN "ValueError"
    ELSE IF duration.micros > MaxSecondsMicros + ToleranceMicros THEN "ValueError"
    ELSE "ok"

MaxSizeBytes == 1048576

require_max_file_size_unchecked(size) == "ok"

\* _require_max_file_size(video_path, 1.0)
require_max_file_size(size) ==
    IF size > MaxSizeBytes THEN "ValueError" ELSE "ok"

\* What ffprobe may report of the input video.
Meta(streams, rate, width, height, duration) ==
    [streams |-> streams, avg_frame_rate |-> rate, width |-> width, height |-> height,
     duration |-> duration]

GoodDuration == Duration(TRUE, TRUE, 3000000)

Rate24 == <<"2", "4", "/", "1">>

FrameRates ==
    {Rate24,
     <<"4", "8", "/", "2">>,
     <<"2", "4", "0", "0", "0", "/", "1", "0", "0", "1">>,
     <<"3", "0", "/", "1">>,
     <<"0", "/", "0">>,
     <<"2", "4", "/", "0">>,
     <<"-", "2", "4", "/", "-", "1">>,
     <<"2", "4">>,
     <<"a", "/", "b">>,
     <<>>}

Metas ==
    {Meta(TRUE, r, 1280, 720, GoodDuration) : r \in FrameRates}
    \cup {Meta(TRUE, Rate24, d[1], d[2], GoodDuration) :
             d \in {<<640, 480>>, <<1000, 1001>>, <<5, 4>>, <<0, 0>>, <<720, 1280>>}}
    \cup {Meta(TRUE, Rate24, 1280, 720, d) :
             d \in {Duration(FALSE, FALSE, 0), Duration(TRUE, FALSE, 0),
                    Duration(TRUE, TRUE, 5000000), Duration(TRUE, TRUE, 5100000)}}
    \cup {Meta(FALSE, <<>>, 0, 0, GoodDuration),
          Meta(TRUE, <<"3", "0", "/", "1">>, 5, 4, Duration(TRUE, TRUE, 5100000))}

NoMeta == Meta(FALSE, <<>>, 0, 0, Duration(FALSE, FALSE, 0))

FileSizes == {1000, MaxSizeBytes, MaxSizeBytes + 1}

VideoNames == {<<"ep1", ".mp4">>, <<"ep1">>}

\* Names the generated directory may hold before the first run.
NumberParts ==
    {<<"0", "0", "1">>, <<"0", "0", "3">>, <<"3">>, <<"0", "0", "0", "2">>,
     <<"9", "9", "9">>, <<"-", "0", "4">>, <<"-", "5">>, <<"x">>, <<>>}

DirPool ==
    {<<"ep1", "_generated-">> \o n \o <<".mp4">> : n \in NumberParts}
    \cup {<<"ep2", "_generated-", "0", "0", "7", ".mp4">>,
          <<"ep1", "_generated-", "0", "0", "8", ".avi">>,
          <<"ep1", ".mp4">>}


InitGenerate ==
    /\ gen_dir \in {d \in SUBSET DirPool : Cardinality(d) <= MaxFiles}
    /\ gen_pc = "idle"
    /\ calls = 0
    /\ video_name = <<>>
    /\ next_number = 0
    /\ output_path = <<>>
    /\ listed = {}
    /\ meta = NoMeta
    /\ file_size = 0
    /\ checks = <<>>
    /\ called_remote = FALSE
    /\ wrote = FALSE
    /\ overwrote = FALSE
    /\ indices = <<>>
    /\ gen_ret = None
    /\ gen_exc = ""
    /\ raised_at = ""
    /\ printed = ""
    /\ sub_ret = None
    /\ escaped = FALSE
    /\ DownloadIdle /\ ExportIdle /\ ParseIdle

\* The classes 'except Exception' catches, among those generate_video can raise.
ExceptionClasses ==
    {"FileNotFoundError", "RuntimeError", "ValueError", "ZeroDivisionError", "OSError",
     "ReplicateError"}

CaughtOnlyValueError(exc) == exc = "ValueError"

\* except Exception as e (line 117)
Caught(exc) == exc \in ExceptionClasses

\* The locals of generate_video are gone when it ends.
ClearLocals ==
    /\ video_name' = <<>>
    /\ next_number' = 0
    /\ output_path' = <<>>
    /\ listed' = {}
    /\ meta' = NoMeta
    /\ file_size' = 0

\* generate_video raises exc at position gen_pc; subcommand_generate's handler
\* (lines 117-119) prints it and returns 1.
Raise(exc) ==
    /\ gen_exc' = exc
    /\ raised_at' = gen_pc
    /\ gen_ret' = None
    /\ gen_pc' = "idle"
    /\ ClearLocals
    /\ IF Caught(exc)
       THEN /\ printed' = exc
            /\ sub_ret' = Some(1)
            /\ escaped' = escaped
       ELSE /\ printed' = ""
            /\ sub_ret' = None
            /\ escaped' = TRUE

\* generate_video goes on to position pc.
Goto(pc) ==
    /\ gen_pc' = pc
    /\ UNCHANGED <<gen_ret, gen_exc, raised_at, printed, sub_ret, escaped>>

\* subcommand_generate calls generate_video: lines 112-137.
StartGenerate ==
    /\ gen_pc = "idle" /\ calls < MaxCalls /\ ~escaped
    /\ calls' = calls + 1
    /\ checks' = <<>>
    /\ called_remote' = FALSE
    /\ wrote' = FALSE
    /\ \E name \in VideoNames, isfile \in BOOLEAN :
          IF ~isfile
          THEN Raise("FileNotFoundError")
          ELSE /\ video_name' = name
               /\ listed' = gen_dir
               /\ next_number' = NextNumber(ExistingNumbers(gen_dir, name))
               /\ output_path' = OutputFilename(name, next_number')
               /\ meta' = NoMeta
               /\ file_size' = 0
               /\ gen_pc' = "ffprobe"
               /\ gen_ret' = None
               /\ gen_exc' = ""
               /\ raised_at' = ""
               /\ printed' = ""
               /\ sub_ret' = None
               /\ escaped' = escaped
    /\ UNCHANGED <<gen_dir, overwrote, indices>>
    /\ UNCHANGED <<dlvars, expvars, parsevars>>

\* _run_ffprobe and the streams check: lines 139-146.
RunFfprobe ==
    /\ gen_pc = "ffprobe"
    /\ \/ Raise("RuntimeError")
       \/ \E m \in Metas :
             IF ~m.streams
             THEN Raise("RuntimeError")
             ELSE /\ meta' = m
                  /\ Goto("fps")
                  /\ UNCHANGED <<video_name, next_number, output_path, listed, file_size>>
    /\ UNCHANGED <<gen_dir, calls, checks, called_remote, wrote, overwrote, indices>>
    /\ UNCHANGED <<dlvars, expvars, parsevars>>

\* One input check: it raises, or the next position is reached.
Check(name, result, next_pc) ==
    /\ IF result # "ok"
       THEN /\ Raise(result)
            /\ checks' = checks
       ELSE /\ checks' = Append(checks, name)
            /\ Goto(next_pc)
            /\ UNCHANGED <<video_name, next_number, output_path, listed, meta>>
    /\ UNCHANGED <<gen_dir, calls, called_remote, wrote, overwrote, indices>>

\* line 148
Require24Fps ==
    /\ gen_pc = "fps"
    /\ Check("fps", require_24_fps(meta.avg_frame_rate), "aspect")
    /\ require_24_fps(meta.avg_frame_rate) = "ok" => file_size' = file_size
    /\ UNCHANGED <<dlvars, expvars, parsevars>>

\* line 149
SelectAspectRatio ==
    /\ gen_pc = "aspect"
    /\ LET result == IF select_supported_aspect_ratio(meta.width, meta.height) = ""
                     THEN "ValueError" ELSE "ok"
       IN  /\ Check("aspect", result, "duration")
           /\ result = "ok" => file_size' = file_size
    /\ UNCHANGED <<dlvars, expvars, parsevars>>

\* line 150
RequireMaxDuration ==
    /\ gen_pc = "duration"
    /\ Check("duration", require_max_duration_seconds(meta.duration), "size")
    /\ require_max_duration_seconds(meta.duration) = "ok" => file_size' = file_size
    /\ UNCHANGED <<dlvars, expvars, parsevars>>

\* line 151
RequireMaxFileSize ==
    /\ gen_pc = "size"
    /\ \E size \in FileSizes :
          /\ Check("size", require_max_file_size(size), "remote")
          /\ require_max_file_size(size) = "ok" => file_size' = size
    /\ UNCHANGED <<dlvars, expvars, parsevars>>

\* replicate.run (line 180): it raises, or gives the output.
CallReplicate ==
    /\ gen_pc = "remote"
    /\ called_remote' = TRUE
    /\ \/ Raise("ReplicateError")
       \/ /\ Goto("write")
          /\ UNCHANGED <<video_name, next_number, output_path, listed, meta, file_size>>
    /\ UNCHANGED <<gen_dir, calls, checks, wrote, overwrote, indices>>
    /\ UNCHANGED <<dlvars, expvars, parsevars>>

\* Lines 186-191: open(output_path, "wb") fails; or the file is there and the
\* write fails; or the video is written and generate_video returns output_path,
\* and the subcommand returns 0.
WriteOutput ==
    /\ gen_pc = "write"
    /\ \/ /\ Raise("OSError")
          /\ UNCHANGED <<gen_dir, wrote, overwrote, indices>>
       \/ /\ gen_dir' = gen_dir \cup {output_path}
          /\ wrote' = TRUE
          /\ overwrote' = (overwrote \/ output_path \in gen_dir)
          /\ \/ /\ Raise("OSError")
                /\ indices' = indices
             \/ /\ gen_ret' = Some(output_path)
                /\ indices' = Append(indices, next_number)
                /\ sub_ret' = Some(0)
                /\ gen_pc' = "idle"
                /\ ClearLocals
                /\ UNCHANGED <<gen_exc, raised_at, printed, escaped>>
    /\ UNCHANGED <<calls, checks, called_remote>>
    /\ UNCHANGED <<dlvars, expvars, parsevars>>

NextGenerate ==
    \/ StartGenerate
    \/ RunFfprobe
    \/ Require24Fps
    \/ SelectAspectRatio
    \/ RequireMaxDuration
    \/ RequireMaxFileSize
    \/ CallReplicate
    \/ WriteOutput

SpecGenerate == InitGenerate /\ [][NextGenerate]_vars

\* ---------------------------------------------------------- export_videos.py
\* Most episodes in the split of a dataset on disk.
MaxSplit == 2
\* Largest --max_episodes given to export_video.
MaxExport == 2

\* "image" in key.lower() or "rgb" in key.lower(), for the keys of this model.
ImageLike(key) == key \in {"image", "wrist_image", "rgb_static", "rgb_gripper"}

\* The observation features a dataset may have, in the order of keys().
KeyLists ==
    {<<"image", "state">>, <<"wrist_image", "state">>, <<"rgb_static", "rgb_gripper", "state">>,
     <<"image", "rgb_static">>, <<"state">>}

LocalDataset(found, keys, episodes) == [found |-> found, keys |-> keys, episodes |-> episodes]

LocalDatasets ==
    {LocalDataset(FALSE, <<>>, 0)}
    \cup {LocalDataset(TRUE, k, e) : k \in KeyLists, e \in 0..MaxSplit}

\* What may be typed on stdin: lines of characters.
TypedLines == {<<>>, <<<<"2">>>>, <<<<"9">>, <<"x">>>>}

Chosen(key, rest) == [key |-> key, rest |-> rest]

\* The while loop of lines 66-78 over the lines still to be read.
RECURSIVE ReadChoice(_, _)
ReadChoice(image_keys, lines) ==
    IF lines = <<>> THEN Chosen(image_keys[1], lines)
    ELSE LET choice == Head(lines) IN
         IF choice = <<>> THEN Chosen(image_keys[1], Tail(lines))
         ELSE IF ~IntOk(choice) THEN Chosen(image_keys[1], Tail(lines))
         ELSE IF IntOf(choice) - 1 >= 0 /\ IntOf(choice) - 1 < Len(image_keys)
              THEN Chosen(image_keys[IntOf(choice)], Tail(lines))
              ELSE ReadChoice(image_keys, Tail(lines))

\* _select_image_key_interactively: the key ("" for None) and the lines left unread.
select_image_key_interactively(observation_features, pre_selected_choice, is_tty, lines) ==
    LET image_keys == SelectSeq(observation_features, ImageLike) IN
    IF image_keys = <<>> THEN Chosen("", lines)
    ELSE IF Len(image_keys) = 1 THEN Chosen(image_keys[1], lines)
    ELSE IF /\ pre_selected_choice # None
            /\ 1 <= pre_selected_choice[1] /\ pre_selected_choice[1] <= Len(image_keys)
         THEN Chosen(image_keys[pre_selected_choice[1]], lines)
    ELSE IF ~is_tty THEN Chosen(image_keys[1], lines)
    ELSE ReadChoice(image_keys, lines)

\* f"ep{ep_idx:05d}.mp4"
EpisodeFile(idx) == <<"ep">> \o FormatD(idx, 5) \o <<".mp4">>

InitExport ==
    /\ exp_names \in NameLists
    /\ exp_max \in (-1)..MaxExport
    /\ exp_choice \in {None, Some(2), Some(3)}
    /\ requested_key \in {"image", "rgb_static"}
    /\ local \in [Range(exp_names) -> LocalDatasets]
    /\ \/ tty = FALSE /\ typed = <<>>
       \/ tty = TRUE /\ typed \in TypedLines
    /\ exp_pc = "dataset"
    /\ exp_i = 1
    /\ display_key = requested_key
    /\ exported = 0
    /\ ep_idx = 0
    /\ dir_bound = FALSE
    /\ videos = [d \in Range(exp_names) |-> NoFiles]
    /\ writes = [d \in Range(exp_names) |-> 0]
    /\ visited = {}
    /\ DownloadIdle /\ GenerateIdle /\ ParseIdle

ExportDataset == exp_names[exp_i]

\* Lines 102-119 and 136-140: the head of the loop over dataset_names, up to the
\* episode loop; a dataset that is not there, or has no image key, is skipped.
BeginDataset ==
    /\ exp_pc = "dataset" /\ exp_i <= Len(exp_names)
    /\ LET d == ExportDataset
           observation_features == local[d].keys
           sel == select_image_key_interactively(observation_features, exp_choice, tty, typed)
           enter == /\ exp_pc' = "episodes"
                    /\ exported' = 0
                    /\ ep_idx' = 0
                    /\ visited' = visited \cup {d}
                    /\ exp_i' = exp_i
           skip == /\ exp_i' = exp_i + 1
                   /\ UNCHANGED <<exp_pc, exported, ep_idx, visited>>
       IN  IF ~local[d].found
           THEN skip /\ UNCHANGED <<display_key, typed>>
           ELSE IF display_key \notin Range(observation_features)
           THEN /\ typed' = sel.rest
                /\ IF sel.key # ""
                   THEN display_key' = sel.key /\ enter
                   ELSE display_key' = display_key /\ skip
           ELSE enter /\ UNCHANGED <<display_key, typed>>
    /\ UNCHANGED <<exp_names, exp_max, exp_choice, requested_key, local, tty, dir_bound,
                   videos, writes>>
    /\ UNCHANGED <<dlvars, genvars, parsevars>>

\* One pass of the episode loop (lines 141-153): one video is written.
WriteEpisode ==
    /\ exp_pc = "episodes"
    /\ ep_idx < local[ExportDataset].episodes
    /\ exported < exp_max
    /\ dir_bound' = TRUE
    /\ videos' = [videos EXCEPT ![ExportDataset] = (EpisodeFile(ep_idx) :> display_key) @@ @]
    /\ writes' = [writes EXCEPT ![ExportDataset] = @ + 1]
    /\ exported' = exported + 1
    /\ ep_idx' = ep_idx + 1
    /\ UNCHANGED <<exp_names, exp_max, exp_choice, requested_key, local, tty, typed, exp_pc,
                   exp_i, display_key, visited>>
    /\ UNCHANGED <<dlvars, genvars, parsevars>>

\* The episode loop ends (the split is exhausted, or line 142 breaks) and line 155
\* prints dataset_video_dir, a local that only the loop body assigns.
EndDataset ==
    /\ exp_pc = "episodes"
    /\ ~(ep_idx < local[ExportDataset].episodes /\ exported < exp_max)
    /\ IF dir_bound
       THEN exp_pc' = "dataset" /\ exp_i' = exp_i + 1
       ELSE exp_pc' = "UnboundLocalError" /\ exp_i' = exp_i
    /\ UNCHANGED <<exp_names, exp_max, exp_choice, requested_key, local, tty, typed,
                   display_key, exported, ep_idx, dir_bound, videos, writes, visited>>
    /\ UNCHANGED <<dlvars, genvars, parsevars>>

\* The loop over dataset_names is exhausted: export_videos returns.
ExportReturns ==
    /\ exp_pc = "dataset" /\ exp_i > Len(exp_names)
    /\ exp_pc' = "returned"
    /\ UNCHANGED <<exp_names, exp_max, exp_choice, requested_key, local, tty, typed, exp_i,
                   display_key, exported, ep_idx, dir_bound, videos, writes, visited>>
    /\ UNCHANGED <<dlvars, genvars, parsevars>>

NextExport ==
    \/ BeginDataset
    \/ WriteEpisode
    \/ EndDataset
    \/ ExportReturns

SpecExport == InitExport /\ [][NextExport]_vars

\* ------------------------------------------------------------------- run.py
MaxText == 3

MaxEnvText == 2

DefaultName == <<"dlr_sara_grid_clamp_converted_externally_to_rlds">>

DEFAULT_DATASETS == <<DefaultName>>

\* The characters of the --datasets and DATASETS strings.
TextChars == {"a", "b", ",", " "}

Texts(n) == UNION {[1..k -> TextChars] : k \in 0..n}

\* What argparse's action="append" gives for --dataset: None without the
\* option, else the values as they were typed.
ArgLists ==
    {None} \cup
    {Some(l) : l \in {<<>>, <<<<"a">>>>, <<<<"b">>>>, <<<<"a">>, <<"b">>>>,
                      <<<<"b">>, <<"a">>>>, <<<<"a">>, <<"a">>>>,
                      <<<<"a", ",", "b">>>>, <<<<>>>>, <<DefaultName>>}}

\* if x: of an optional list or string
Truthy(x) == x # None /\ Len(x[1]) > 0

\* s.replace(",", " ")
ReplaceCommas(s) == [p \in 1..Len(s) |-> IF s[p] = "," THEN " " ELSE s[p]]

\* str.split() without a separator: the runs of characters between whitespace.
RECURSIVE SplitWhitespace(_)
SplitWhitespace(s) ==
    IF Len(s) = 0 THEN <<>>
    ELSE IF s[1] = " " THEN SplitWhitespace(Tail(s))
    ELSE LET stops == {p \in 1..Len(s) : s[p] = " "}
             n == IF stops = {} THEN Len(s) + 1
                  ELSE CHOOSE p \in stops : \A q \in stops : p <= q
         IN  <<SubSeq(s, 1, n - 1)>> \o SplitWhitespace(SubSeq(s, n, Len(s)))

\* lines 16-22: the names of the three sources, in this order.
Collected(args, csv_text, env_text) ==
    (IF Truthy(args) THEN args[1] ELSE <<>>)
    \o (IF Truthy(csv_text) THEN SplitWhitespace(ReplaceCommas(csv_text[1])) ELSE <<>>)
    \o (IF Truthy(env_text) THEN SplitWhitespace(ReplaceCommas(env_text[1])) ELSE <<>>)

DedupKeepsAll(names, kept, seen) == kept \o names

\* lines 26-31: the loop over datasets with the set seen.
RECURSIVE Dedup(_, _, _)
Dedup(names, kept, seen) ==
    IF Len(names) = 0 THEN kept
    ELSE IF Head(names) \notin seen
         THEN Dedup(Tail(names), Append(kept, Head(names)), seen \cup {Head(names)})
         ELSE Dedup(Tail(names), kept, seen)

InitParse ==
    /\ arg_list \in ArgLists
    /\ csv \in {None} \cup {Some(t) : t \in Texts(MaxText)}
    /\ env \in {None} \cup {Some(t) : t \in Texts(MaxEnvText)}
    /\ parse_pc = "collect"
    /\ datasets = <<>>
    /\ defaulted = FALSE
    /\ deduped = <<>>
    /\ DownloadIdle /\ GenerateIdle /\ ExportIdle

\* lines 16-24
CollectNames ==
    /\ parse_pc = "collect"
    /\ LET collected == Collected(arg_list, csv, env) IN
       /\ defaulted' = (Len(collected) = 0)
       /\ datasets' = IF Len(collected) = 0 THEN DEFAULT_DATASETS ELSE collected
    /\ parse_pc' = "dedup"
    /\ UNCHANGED <<arg_list, csv, env, deduped>>
    /\ UNCHANGED <<dlvars, genvars, expvars>>

\* lines 25-32
Deduplicate ==
    /\ parse_pc = "dedup"
    /\ deduped' = Dedup(datasets, <<>>, {})
    /\ parse_pc' = "returned"
    /\ UNCHANGED <<arg_list, csv, env, datasets, defaulted>>
    /\ UNCHANGED <<dlvars, genvars, expvars>>

NextParse ==
    \/ CollectNames
    \/ Deduplicate

SpecParse == InitParse /\ [][NextParse]_vars

\* ------------------------------------------------ claims: download_dataset.py
\* The episodes of the first k shards.
RECURSIVE EpisodesIn(_, _)
EpisodesIn(lens, k) == IF k = 0 THEN 0 ELSE EpisodesIn(lens, k - 1) + IntOf(lens[k])

\* k shards are the shortest prefix reaching m episodes, or the whole list.
ShortestPrefix(lens, m, k) ==
    \/ k >= 1 /\ EpisodesIn(lens, k) >= m /\ EpisodesIn(lens, k - 1) < m
    \/ k = Len(lens) /\ EpisodesIn(lens, k) < m

\* The mirror's train split can be planned: _download_selective gets to line 71.
Plannable(doc) ==
    /\ doc.parses
    /\ TrainIndex(doc) # 0
    /\ TrainSplitOf(doc).shardLengths # <<>>
    /\ TrainSplitOf(doc).filepathTemplate # <<>>

MirrorLengths(d) == TrainSplitOf(mirror[d]).shardLengths

\* The name a shard has on the mirror and on disk, written out.
ShardName(d, x, y) ==
    <<get_dataset_prefix(d), "-", "train", ".", "tfrecord", "-">>
        \o FormatD(x, 5) \o <<"-of-">> \o FormatD(y, 5)

ShardCmds(d) == {p \in 1..Len(cmds) : cmds[p].kind = "shard" /\ cmds[p].src_base[2] = d}

\* C1: for a non-empty shard list and max_episodes >= 1, shards_needed is exactly
\* the shortest prefix 0..k-1 whose lengths sum to at least max_episodes (or the
\* whole list when the total is smaller), and every shard transfer is for a shard
\* of that prefix.
C1_ShortestPrefixSelected ==
    \A d \in Range(dataset_names) :
        (max_episodes # None /\ max_episodes[1] >= 1 /\ Plannable(mirror[d])) =>
            LET lens == MirrorLengths(d)
                n == Len(lens)
                ks == {k \in 0..n : ShortestPrefix(lens, max_episodes[1], k)}
            IN  /\ Cardinality(ks) = 1
                /\ \A k \in ks :
                      /\ (dl_pc = "shards" /\ CurrentDataset = d) =>
                             shards_needed = [p \in 1..k |-> p - 1]
                      /\ \A p \in ShardCmds(d) :
                             \E x \in 0..(k - 1) : cmds[p].file = ShardName(d, x, n)

\* C1's case: a strict prefix was selected and all of it was fetched.
C1_Witness ==
    /\ dl_pc = "shards"
    /\ max_episodes # None /\ max_episodes[1] >= 1
    /\ Len(shards_needed) >= 1
    /\ Len(shards_needed) < Len(MirrorLengths(CurrentDataset))
    /\ shard_j = Len(shards_needed)

\* The number of shards the call for d selects.
SelectedCount(d) == Len(ShardsNeeded(MirrorLengths(d), max_episodes[1]))

MetadataOk(d, file, before) ==
    \E q \in 1..(before - 1) :
        /\ cmds[q].kind = "metadata" /\ cmds[q].src_base[2] = d
        /\ cmds[q].file = <<file>> /\ cmds[q].rc = 0

\* C4: a transfer command that exits non-zero is the last one issued and its exit
\* code is what download_datasets returns; a shard is transferred only after both
\* metadata files of its dataset were; download_datasets returns 0 only when
\* every command exited 0.
C4_StopsAtFirstFailure ==
    /\ \A p \in 1..Len(cmds) :
          cmds[p].rc # 0 => (p = Len(cmds) /\ dl_ret = Some(cmds[p].rc))
    /\ \A p \in 1..Len(cmds) :
          cmds[p].kind = "shard" =>
              /\ MetadataOk(cmds[p].src_base[2], "dataset_info.json", p)
              /\ MetadataOk(cmds[p].src_base[2], "features.json", p)
    /\ dl_ret = Some(0) => \A p \in 1..Len(cmds) : cmds[p].rc = 0

\* C4's case: a shard transfer of the second dataset failed with exit code 2.
C4_Witness ==
    /\ dl_ret = Some(2)
    /\ ds_i = 2
    /\ Len(cmds) >= 1
    /\ cmds[Len(cmds)].kind = "shard"
    /\ cmds[Len(cmds)].rc = 2

\* C5: no source file is the source of two transfer commands of a run.
C5_NoRetry ==
    \A p, q \in 1..Len(cmds) :
        (cmds[p].src_base = cmds[q].src_base /\ cmds[p].file = cmds[q].file) => p = q

\* C5's case: two shards were fetched and the transfer of a later file failed.
C5_Witness ==
    /\ Len(cmds) >= 5
    /\ cmds[Len(cmds)].rc # 0
    /\ \E p, q \in 1..Len(cmds) : p # q /\ cmds[p].kind = "shard" /\ cmds[q].kind = "shard"

LastCmdFailedShard(c) == Len(c) >= 1 /\ c[Len(c)].kind = "shard" /\ c[Len(c)].rc # 0

\* C9: a step in which a shard transfer fails after some shards were fetched
\* returns the failing exit code and changes no file: dataset_info.json still
\* has the mirror's shardLengths and the shard files are as they were.
C9_FailureLeavesFiles ==
    [][(/\ dl_pc = "shards" /\ shard_j >= 1
        /\ Len(cmds') = Len(cmds) + 1 /\ LastCmdFailedShard(cmds'))
       => (/\ sel_ret'[CurrentDataset] = Some(cmds'[Len(cmds')].rc)
           /\ dl_ret' = sel_ret'[CurrentDataset]
           /\ info' = info /\ features' = features /\ shards' = shards
           /\ info'[CurrentDataset] = Some(mirror[CurrentDataset])
           /\ Cardinality(DOMAIN shards'[CurrentDataset]) = shard_j)]_vars

\* C9's case: the second shard transfer failed with the first shard, renamed, on disk.
C9_Witness ==
    /\ dl_pc = "done"
    /\ LastCmdFailedShard(cmds)
    /\ shard_j >= 1
    /\ Len(shards_needed) < Len(MirrorLengths(CurrentDataset))
    /\ DOMAIN shards[CurrentDataset] = {ShardName(CurrentDataset, 0, Len(shards_needed))}

\* -------------------------------------------------- claims: generate_video.py
\* The integer indices of the files '<base>_generated-<int><ext>' of a directory.
GeneratedIndices(dir, name) ==
    LET front == BaseName(name) \o <<"_generated-">>
        back == Extension(name)
    IN  {IntOf(SubSeq(f, Len(front) + 1, Len(f) - Len(back))) :
            f \in {g \in dir : /\ StartsWith(g, front)
                               /\ EndsWith(g, back)
                               /\ IntOk(SubSeq(g, Len(front) + 1, Len(g) - Len(back)))}}

InCall == gen_pc \in {"ffprobe", "fps", "aspect", "duration", "size", "remote", "write"}

\* C6: the index chosen is 1 when the directory has no file of the pattern and
\* one more than the largest index otherwise; the output path is none of the
\* files listed; no run opens an output path that is already a file; the
\* indices of the runs that returned increase strictly.
C6_NextIndexIsFresh ==
    /\ InCall =>
          /\ (GeneratedIndices(listed, video_name) = {} => next_number = 1)
          /\ \A x \in GeneratedIndices(listed, video_name) : next_number > x
          /\ GeneratedIndices(listed, video_name) # {} =>
                (next_number - 1) \in GeneratedIndices(listed, video_name)
          /\ output_path \notin listed
    /\ ~overwrote
    /\ \A p, q \in 1..Len(indices) : p < q => indices[p] < indices[q]

\* C6's case: files 001 and 003 were there; two runs returned, writing 004 and 005.
C6_Witness ==
    /\ indices = <<4, 5>>
    /\ {<<"ep1", "_generated-", "0", "0", "1", ".mp4">>,
        <<"ep1", "_generated-", "0", "0", "3", ".mp4">>,
        <<"ep1", "_generated-", "0", "0", "4", ".mp4">>,
        <<"ep1", "_generated-", "0", "0", "5", ".mp4">>} = gen_dir

\* C7: when the subcommand has ended, it returned 0 exactly when generate_video
\* returned a path; when generate_video raised, the error was printed and 1 was
\* returned; no exception leaves the subcommand.
C7_GenerateReturnCode ==
    /\ ~escaped
    /\ (gen_pc = "idle" /\ calls >= 1) =>
          /\ sub_ret \in {Some(0), Some(1)}
          /\ (sub_ret = Some(0)) <=> (gen_ret # None)
          /\ (gen_exc # "") <=> (gen_ret = None)
          /\ gen_exc # "" => (sub_ret = Some(1) /\ printed = gen_exc)

\* C7's case: a run returned a path and the next one raised in the frame rate check.
C7_Witness ==
    /\ gen_pc = "idle" /\ calls = 2
    /\ Len(indices) = 1
    /\ gen_exc = "ZeroDivisionError"
    /\ sub_ret = Some(1)

CheckOrder == <<"fps", "aspect", "duration", "size">>

\* The four conditions on the input video, stated on what was probed.
Is24Fps(rate) ==
    LET parts == SplitOn(rate, "/") IN
    /\ Len(parts) = 2 /\ IntOk(parts[1]) /\ IntOk(parts[2])
    /\ IntOf(parts[2]) # 0
    /\ IntOf(parts[1]) = 24 * IntOf(parts[2])

RatioSupported(width, height) ==
    /\ width > 0 /\ height > 0
    /\ \E p \in {<<16, 9>>, <<9, 16>>, <<4, 3>>, <<3, 4>>, <<1, 1>>, <<21, 9>>} :
          100 * Abs(width * p[2] - p[1] * height) <= p[2] * height

\* C10: the remote model is called only after the four checks passed, in the
\* order fps, aspect ratio, duration, file size, on an input that meets them;
\* the output is written only after the call; a run that ended at the missing
\* input, at ffprobe or at a check neither called the model nor wrote a file.
C10_ChecksBeforeRemote ==
    /\ Len(checks) <= Len(CheckOrder) /\ checks = SubSeq(CheckOrder, 1, Len(checks))
    /\ called_remote => checks = CheckOrder
    /\ wrote => called_remote
    /\ gen_pc \in {"remote", "write"} =>
          /\ checks = CheckOrder
          /\ Is24Fps(meta.avg_frame_rate)
          /\ RatioSupported(meta.width, meta.height)
          /\ meta.duration.present /\ meta.duration.parses
          /\ meta.duration.micros <= MaxSecondsMicros + ToleranceMicros
          /\ file_size <= MaxSizeBytes
    /\ (gen_pc = "idle" /\ raised_at \in {"idle", "ffprobe", "fps", "aspect", "duration", "size"})
          => (~called_remote /\ ~wrote)

\* C10's case: a run passed three checks and failed the file size check.
C10_Witness ==
    /\ gen_pc = "idle"
    /\ raised_at = "size"
    /\ checks = <<"fps", "aspect", "duration">>
    /\ ~called_remote /\ ~wrote

\* --------------------------------------------------- claims: export_videos.py
Min(a, b) == IF a < b THEN a ELSE b

Ended == exp_pc \in {"returned", "UnboundLocalError"}

\* C8: when export_videos has ended, every dataset on disk that has an image key
\* got, for a max_episodes >= 0 and e episodes in its split, exactly
\* min(max_episodes, e) video files, named ep00000 .. ep(k-1), each written once.
C8_BoundedExport ==
    (Ended /\ exp_max >= 0) =>
        \A d \in Range(exp_names) :
            (local[d].found /\ \E p \in 1..Len(local[d].keys) : ImageLike(local[d].keys[p])) =>
                LET k == Min(exp_max, local[d].episodes) IN
                /\ DOMAIN videos[d] = {EpisodeFile(x) : x \in 0..(k - 1)}
                /\ writes[d] = k

\* ------------------------------------------------------- claims: frame rate

\* C11: _require_24_fps returns normally exactly for a string 'N/D' of two
\* integers with D # 0 and N = 24 * D, and raises ValueError for every other
\* input, '0/0' and a zero denominator included.
C11_Require24FpsOutcome ==
    [][gen_pc = "fps" =>
          IF Is24Fps(meta.avg_frame_rate)
          THEN gen_pc' = "aspect" /\ gen_exc' = ""
          ELSE gen_pc' = "idle" /\ raised_at' = "fps" /\ gen_exc' = "ValueError"]_vars

\* ------------------------------------------------------------ claims: run.py

Separators == {",", " "}

\* The maximal runs of characters of s that hold no comma and no space.
Runs(s) ==
    {r \in (1..Len(s)) \X (1..Len(s)) :
        /\ r[1] <= r[2]
        /\ \A k \in r[1]..r[2] : s[k] \notin Separators
        /\ r[1] = 1 \/ s[r[1] - 1] \in Separators
        /\ r[2] = Len(s) \/ s[r[2] + 1] \in Separators}

\* Every name the three sources give: <<source, position in the source, name>>.
Occurrences ==
    (IF arg_list = None THEN {}
     ELSE {<<1, k, arg_list[1][k]>> : k \in 1..Len(arg_list[1])})
    \cup (IF csv = None THEN {}
          ELSE {<<2, r[1], SubSeq(csv[1], r[1], r[2])>> : r \in Runs(csv[1])})
    \cup (IF env = None THEN {}
          ELSE {<<3, r[1], SubSeq(env[1], r[1], r[2])>> : r \in Runs(env[1])})

Before(o1, o2) == o1[1] < o2[1] \/ (o1[1] = o2[1] /\ o1[2] < o2[2])

FirstOccurrence(n) ==
    CHOOSE o \in Occurrences :
        o[3] = n /\ \A o2 \in Occurrences : o2[3] = n => ~Before(o2, o)

C13_RequestedKeyWherePresent ==
    \A d \in DOMAIN videos : \A f \in DOMAIN videos[d] :
        requested_key \in Range(local[d].keys) => videos[d][f] = requested_key

====
